---- MODULE Spec2Model ----
(***************************************************************************)
(* AbstractDirective of ngx-dnd (abstract.directive.ts): the native event  *)
(* handlers wired by the constructor, the drop filter isDropAllowed, the   *)
(* shared DragDropService session and the deferred change detection.       *)
(*                                                                         *)
(* Two directive-bearing elements are modelled, E2 nested inside E1, each  *)
(* with one candidate drag-handle child (H1, H2).  A native event is       *)
(* dispatched at a node and bubbles through the on<event> handlers of the  *)
(* directive elements on its path, one handler per step of the model.      *)
(***************************************************************************)
EXTENDS Integers, Sequences, FiniteSets, TLC

VARIABLES
    isDragged,          \* DragDropService.isDragged
    dragData,           \* DragDropService.dragData
    allowedDropZones,   \* DragDropService.allowedDropZones
    dragEnabled,        \* [Elems -> BOOLEAN]  _dragEnabled
    draggable,          \* [Elems -> BOOLEAN]  element.draggable
    dropEnabled,        \* [Elems -> BOOLEAN]
    dropZones,          \* [Elems -> Seq(Zones)]
    allowDrop,          \* [Elems -> AllowDropKinds]
    dragHandle,         \* [Elems -> Nodes \cup {None}]  _dragHandle
    target,             \* [Elems -> Nodes \cup {None}]  last mousedown target
    dragHelper,         \* [Elems -> {"unset","inDoc","removed"}]
    attached,           \* [Elems -> BOOLEAN]  element.parentElement is non-null
    cursor,             \* [Nodes -> Cursors]  style.cursor
    destroyed,          \* [Elems -> BOOLEAN]  (cdr as ViewRef).destroyed
    timers,             \* [Elems -> Nat]  pending setTimeout callbacks
    gesture,            \* node a native drag gesture started at, or None
    evt,                \* the native event being dispatched (done = TRUE when over)
    calls,              \* hooks and timers invoked during the dispatch of evt
    last,               \* what the most recent handler invocation read and decided
    scen                \* progress of the gesture start on A, over B, drop on B, end on A

vars == <<isDragged, dragData, allowedDropZones, dragEnabled, draggable,
          dropEnabled, dropZones, allowDrop, dragHandle, target, dragHelper,
          attached, cursor, destroyed, timers, gesture, evt, calls, last,
          scen>>

sessionVars == <<isDragged, dragData, allowedDropZones>>
configVars  == <<dragEnabled, draggable, dropEnabled, dropZones, allowDrop, dragHandle>>
domVars     == <<target, dragHelper, attached, cursor, destroyed>>

----------------------------------------------------------------------------
(* Bounds of the model *)

MaxZones == 2       \* longest zone list drawn for dropZones / allowedDropZones
MaxTimers == 2      \* most refresh timers pending on one element

----------------------------------------------------------------------------
(* The page *)

None == "none"
Elems == {"E1", "E2"}
Nodes == {"E1", "H1", "E2", "H2"}
Zones == {"a", "b", "c"}
Payloads == {"p1", "p2"}
Cursors == {"default", "effect"}
AllowDropKinds == {"none", "always", "never", "isP1"}
TargetTypes == {"dragenter", "dragover", "dragleave", "drop"}
SourceTypes == {"mousedown", "dragstart", "dragend"}
\* event.dataTransfer: absent; present with files undefined; present with an
\* empty FileList; present with a FileList holding files
Transfers == {"absent", "nofiles", "empty", "files"}

\* the lists of at most n distinct members of S
RECURSIVE SeqsUpTo(_, _)
SeqsUpTo(S, n) ==
    IF n = 0 THEN {<<>>}
    ELSE LET shorter == SeqsUpTo(S, n - 1)
         IN  shorter \cup {Append(s, z) : s \in shorter, z \in S}

NoRepeat(s) == \A i, j \in DOMAIN s : s[i] = s[j] => i = j

ZoneLists == {s \in SeqsUpTo(Zones, MaxZones) : NoRepeat(s)}

Range(s) == {s[i] : i \in DOMAIN s}

HandleOf(e) == IF e = "E1" THEN "H1" ELSE "H2"

OwnerOf(n) == IF n \in {"E1", "H1"} THEN "E1" ELSE "E2"

\* Node.contains(other): the candidate handles are leaves; contains(undefined)
\* is false
Contains(h, n) == n # None /\ n = h

\* the directive elements whose handlers an event dispatched at n reaches,
\* innermost first
Path(n) ==
    IF OwnerOf(n) = "E1" THEN <<"E1">>
    ELSE IF attached["E2"] THEN <<"E2", "E1">> ELSE <<"E2">>

IdleEvt ==
    [type |-> None, target |-> None, dt |-> "absent", idx |-> 0,
     prevented |-> FALSE, stopped |-> FALSE, dataSet |-> FALSE,
     dropEffect |-> None, done |-> TRUE]

NoLast ==
    [el |-> None, type |-> None, filtered |-> FALSE, allowed |-> FALSE,
     threw |-> FALSE, honoured |-> FALSE, active |-> FALSE, dt |-> "absent",
     enabled |-> FALSE, pred |-> "none", payload |-> None, own |-> <<>>,
     elig |-> <<>>, handle |-> None, ptr |-> None, wasSet |-> FALSE]

NoScen == [step |-> 0, a |-> None, b |-> None]

----------------------------------------------------------------------------
(* Configuration read by the handlers *)

\* config.dropEffect.name
DropEffectName == "move"

\* config.defaultCursor, copied to defaultCursor by the constructor
defaultCursor == "default"

\* isPresent(x): x is neither undefined nor null
isPresent(x) == x # None

----------------------------------------------------------------------------
(* isDropAllowed *)

\* Array.prototype.indexOf
IndexOf(s, z) ==
    IF \E i \in DOMAIN s : s[i] = z
    THEN (CHOOSE i \in DOMAIN s : s[i] = z /\ \A j \in 1..(i - 1) : s[j] # z) - 1
    ELSE -1

\* event.dataTransfer && event.dataTransfer.files: a FileList is an object and
\* so truthy, also when it holds no file
HasFiles(dt) == dt \in {"empty", "files"}

\* for (const dropZone of allowedDropZones)
\*   if (dropZones.indexOf(dropZone) !== -1) return true
ZoneLoopFirstOnly(own, elig, i) ==
    IF i > Len(elig) THEN FALSE ELSE IndexOf(own, elig[i]) # -1

RECURSIVE ZoneLoop(_, _, _)
ZoneLoop(own, elig, i) ==
    IF i > Len(elig) THEN FALSE
    ELSE IF IndexOf(own, elig[i]) # -1 THEN TRUE
    ELSE ZoneLoop(own, elig, i + 1)

\* the allowDrop input applied to the payload
ApplyAllowDrop(k, d) ==
    CASE k = "always" -> TRUE
      [] k = "never"  -> FALSE
      [] k = "isP1"   -> d = "p1"
      [] OTHER        -> FALSE

\* the outer condition of isDropAllowed
Gate(e, dt) == (isDragged \/ HasFiles(dt)) /\ dropEnabled[e]

\* the zone test: the unrestricted default, then the loop
ZoneDecisionEmptyOwnAccepts(e) ==
    IF Len(dropZones[e]) = 0 THEN TRUE
    ELSE ZoneLoop(dropZones[e], allowedDropZones, 1)

ZoneDecision(e) ==
    IF Len(dropZones[e]) = 0 /\ Len(allowedDropZones) = 0 THEN TRUE
    ELSE ZoneLoop(dropZones[e], allowedDropZones, 1)

\* the body run once the gate has passed
DecideZonesThenPredicate(e) ==
    ZoneDecision(e)
    /\ (isPresent(allowDrop[e]) => ApplyAllowDrop(allowDrop[e], dragData))

Decide(e) ==
    IF isPresent(allowDrop[e]) THEN ApplyAllowDrop(allowDrop[e], dragData)
    ELSE ZoneDecision(e)

isDropAllowed(e, dt) == IF Gate(e, dt) THEN Decide(e) ELSE FALSE

----------------------------------------------------------------------------
(* Event dispatch *)

\* the element whose handler runs next
Cur == Path(evt.target)[evt.idx]

\* after a handler returns: on to the next element of the path, unless the
\* path is exhausted or propagation was stopped
Advance(ev) ==
    IF ev.idx >= Len(Path(ev.target)) \/ ev.stopped
    THEN [ev EXCEPT !.done = TRUE]
    ELSE [ev EXCEPT !.idx = @ + 1]

\* the browser starts a gesture when dragstart was not cancelled and ends it
\* with dragend
GestureAfter(ev) ==
    IF ev.done /\ ev.type = "dragstart"
    THEN (IF ev.prevented THEN None ELSE ev.target)
    ELSE IF ev.done /\ ev.type = "dragend" THEN None
    ELSE gesture

\* the gesture of two freshly configured elements, source A and target B
\* sharing a zone list: drag-start on A, drag-over on B, drop on B, drag-end
\* on A, the session active at the target events; any other event starts over
ScenAfter(ev) ==
    IF ~ev.done THEN scen
    ELSE IF /\ ev.type = "dragstart" /\ ev.target \in Elems /\ ~ev.prevented
            /\ dragEnabled[ev.target]
            /\ dragHandle[ev.target] = None
            /\ dragHelper[ev.target] = "unset"
            /\ dropZones[ev.target] # <<>>
            /\ \A b \in Elems \ {ev.target} :
                  /\ dropEnabled[b]
                  /\ dropZones[b] = dropZones[ev.target]
                  /\ allowDrop[b] = None
         THEN [step |-> 1, a |-> ev.target,
               b |-> CHOOSE b \in Elems : b # ev.target]
    ELSE IF /\ scen.step = 1 /\ ev.type = "dragover" /\ ev.target = scen.b
            /\ isDragged
         THEN [scen EXCEPT !.step = 2]
    ELSE IF /\ scen.step = 2 /\ ev.type = "drop" /\ ev.target = scen.b
            /\ isDragged
         THEN [scen EXCEPT !.step = 3]
    ELSE IF scen.step = 3 /\ ev.type = "dragend" /\ ev.target = scen.a
         THEN [scen EXCEPT !.step = 4]
    ELSE NoScen

\* what a target-side handler read and decided
FilterRecord(e) ==
    [NoLast EXCEPT !.el = e, !.type = evt.type, !.filtered = TRUE,
                   !.allowed = isDropAllowed(e, evt.dt),
                   !.active = isDragged, !.dt = evt.dt,
                   !.enabled = dropEnabled[e], !.pred = allowDrop[e],
                   !.payload = dragData, !.own = dropZones[e],
                   !.elig = allowedDropZones, !.wasSet = evt.dataSet]

\* one entry of calls: the hook, the eligible zones it observes, and whether
\* the transfer of the event is already marked when it runs
HookCall(e, h, z) == [el |-> e, hook |-> h, zones |-> z, marked |-> evt.dataSet]

Dispatch(type, n, dt) ==
    /\ evt.done
    /\ type = "dragstart" => gesture = None
    /\ type = "dragend" => gesture = n
    /\ type = "drop" => \A e \in Elems : timers[e] < MaxTimers
    /\ evt' = [IdleEvt EXCEPT !.type = type, !.target = n, !.dt = dt,
                              !.idx = 1, !.done = FALSE]
    /\ calls' = <<>>
    /\ last' = NoLast
    /\ UNCHANGED <<sessionVars, configVars, domVars, timers, gesture, scen>>

\* ondragenter -> dragEnter
OnDragEnter(e) ==
    /\ evt.type = "dragenter"
    /\ calls' = IF isDropAllowed(e, evt.dt)
                THEN Append(calls, HookCall(e, "dragEnter", allowedDropZones)) ELSE calls
    /\ evt' = Advance(evt)
    /\ last' = FilterRecord(e)
    /\ UNCHANGED <<sessionVars, configVars, domVars, timers>>

\* ondragleave -> dragLeave
OnDragLeaveUnfiltered(e) ==
    /\ evt.type = "dragleave"
    /\ calls' = Append(calls, HookCall(e, "dragLeave", allowedDropZones))
    /\ evt' = Advance(evt)
    /\ last' = FilterRecord(e)
    /\ UNCHANGED <<sessionVars, configVars, domVars, timers>>

OnDragLeave(e) ==
    /\ evt.type = "dragleave"
    /\ calls' = IF isDropAllowed(e, evt.dt)
                THEN Append(calls, HookCall(e, "dragLeave", allowedDropZones)) ELSE calls
    /\ evt' = Advance(evt)
    /\ last' = FilterRecord(e)
    /\ UNCHANGED <<sessionVars, configVars, domVars, timers>>

\* ondragover: dragOver, then the transfer is marked and the handler returns
\* false, which cancels the event
OnDragOverGuarded(e) ==
    /\ evt.type = "dragover"
    /\ calls' = IF isDropAllowed(e, evt.dt)
                THEN Append(calls, HookCall(e, "dragOver", allowedDropZones)) ELSE calls
    /\ evt' = Advance([evt EXCEPT
                 !.prevented = @ \/ isDropAllowed(e, evt.dt),
                 !.dropEffect = IF evt.dt # "absent" THEN DropEffectName ELSE @,
                 !.dataSet = IF evt.dt # "absent" THEN TRUE ELSE @])
    /\ last' = FilterRecord(e)
    /\ UNCHANGED <<sessionVars, configVars, domVars, timers>>

OnDragOver(e) ==
    /\ evt.type = "dragover"
    /\ calls' = IF isDropAllowed(e, evt.dt)
                THEN Append(calls, HookCall(e, "dragOver", allowedDropZones)) ELSE calls
    /\ evt' = Advance([evt EXCEPT
                 !.prevented = TRUE,
                 !.dropEffect = IF evt.dt # "absent" THEN DropEffectName ELSE @,
                 !.dataSet = IF evt.dt # "absent" THEN TRUE ELSE @])
    /\ last' = FilterRecord(e)
    /\ UNCHANGED <<sessionVars, configVars, domVars, timers>>

\* preventAndStop
preventOnly(ev) == [ev EXCEPT !.prevented = TRUE]

preventAndStop(ev) == [ev EXCEPT !.prevented = TRUE, !.stopped = TRUE]

\* ondrop -> drop: preventAndStop, the drop hook, detectChanges
OnDropAlwaysStops(e) ==
    /\ evt.type = "drop"
    /\ evt' = Advance(preventAndStop(evt))
    /\ IF isDropAllowed(e, evt.dt)
       THEN /\ calls' = calls \o <<HookCall(e, "drop", allowedDropZones), HookCall(e, "setTimeout", allowedDropZones)>>
            /\ timers' = [timers EXCEPT ![e] = @ + 1]
       ELSE UNCHANGED <<calls, timers>>
    /\ last' = FilterRecord(e)
    /\ UNCHANGED <<sessionVars, configVars, domVars>>

OnDrop(e) ==
    /\ evt.type = "drop"
    /\ IF isDropAllowed(e, evt.dt)
       THEN /\ evt' = Advance(preventAndStop(evt))
            /\ calls' = calls \o <<HookCall(e, "drop", allowedDropZones), HookCall(e, "setTimeout", allowedDropZones)>>
            /\ timers' = [timers EXCEPT ![e] = @ + 1]
       ELSE /\ evt' = Advance(evt)
            /\ UNCHANGED <<calls, timers>>
    /\ last' = FilterRecord(e)
    /\ UNCHANGED <<sessionVars, configVars, domVars>>

\* what a source-side handler read: enabled is dragEnabled, own the element's
\* zones, elig the session's zones before the handler ran
SourceRecord(e) ==
    [NoLast EXCEPT !.el = e, !.type = evt.type, !.active = isDragged,
                   !.dt = evt.dt, !.enabled = dragEnabled[e],
                   !.own = dropZones[e], !.elig = allowedDropZones,
                   !.handle = dragHandle[e], !.ptr = target[e],
                   !.wasSet = evt.dataSet]

\* onmousedown
OnMouseDownKeepsFirst(e) ==
    /\ evt.type = "mousedown"
    /\ target' = [target EXCEPT ![e] = IF @ = None THEN evt.target ELSE @]
    /\ evt' = Advance(evt)
    /\ last' = SourceRecord(e)
    /\ UNCHANGED <<sessionVars, configVars, dragHelper, attached, cursor,
                   destroyed, timers, calls>>

OnMouseDown(e) ==
    /\ evt.type = "mousedown"
    /\ target' = [target EXCEPT ![e] = evt.target]
    /\ evt' = Advance(evt)
    /\ last' = SourceRecord(e)
    /\ UNCHANGED <<sessionVars, configVars, dragHelper, attached, cursor,
                   destroyed, timers, calls>>

\* the element ondragend restores the cursor of
CursorElemAlwaysElement(e) == e

CursorElem(e) == IF dragHandle[e] # None THEN dragHandle[e] ELSE e

\* the dragStart hook: the no-op of the base class, or the override of a
\* concrete source, which marks the session active and attaches the payload
dragStartCallback(e) ==
    \E concrete \in BOOLEAN :
        IF concrete
        THEN isDragged' = TRUE /\ dragData' = "p1"
        ELSE UNCHANGED <<isDragged, dragData>>

\* the dragEnd hook: the no-op of the base class, or the override of a
\* concrete source, which marks the session inactive
dragEndCallback(e) ==
    \E concrete \in BOOLEAN : isDragged' = (isDragged /\ ~concrete)

\* dragStart
dragStart(e) ==
    IF dragEnabled[e]
    THEN /\ allowedDropZones' = dropZones[e]
         /\ calls' = Append(calls, HookCall(e, "dragStart", dropZones[e]))
         /\ dragStartCallback(e)
    ELSE UNCHANGED <<sessionVars, calls>>

\* dragEnd
dragEndKeepsZones(e) ==
    /\ allowedDropZones' = allowedDropZones
    /\ calls' = Append(calls, HookCall(e, "dragEnd", allowedDropZones))
    /\ dragEndCallback(e)

dragEnd(e) ==
    /\ allowedDropZones' = <<>>
    /\ calls' = Append(calls, HookCall(e, "dragEnd", <<>>))
    /\ dragEndCallback(e)

\* the handle test of ondragstart
HandleRejectsOnlyRecorded(e) ==
    isPresent(dragHandle[e]) /\ isPresent(target[e])
    /\ ~Contains(dragHandle[e], target[e])

HandleRejects(e) ==
    isPresent(dragHandle[e]) /\ ~Contains(dragHandle[e], target[e])

\* ondragstart
OnDragStart(e) ==
    /\ evt.type = "dragstart"
    /\ IF HandleRejects(e)
       THEN /\ evt' = Advance([evt EXCEPT !.prevented = TRUE])
            /\ last' = SourceRecord(e)
            /\ UNCHANGED <<sessionVars, calls>>
       ELSE /\ dragStart(e)
            /\ evt' = Advance([evt EXCEPT
                         !.dataSet = IF evt.dt # "absent" THEN TRUE ELSE @])
            /\ last' = [SourceRecord(e) EXCEPT !.honoured = TRUE]
    /\ UNCHANGED <<configVars, domVars, timers>>

\* parentElement.removeChild(dragHelper) throws NotFoundError when dragHelper
\* is not a child of parentElement
RemoveChildThrows(e) ==
    attached[e] /\ dragHelper[e] # "unset" /\ dragHelper[e] # "inDoc"

\* ondragend; an exception ends the handler, not the dispatch
OnDragEnd(e) ==
    /\ evt.type = "dragend"
    /\ evt' = Advance(evt)
    /\ IF RemoveChildThrows(e)
       THEN /\ last' = [SourceRecord(e) EXCEPT !.threw = TRUE]
            /\ UNCHANGED <<sessionVars, calls, cursor, dragHelper>>
       ELSE /\ dragHelper' = IF attached[e] /\ dragHelper[e] # "unset"
                             THEN [dragHelper EXCEPT ![e] = "removed"]
                             ELSE dragHelper
            /\ dragEnd(e)
            /\ dragData' = dragData
            /\ cursor' = [cursor EXCEPT ![CursorElem(e)] = defaultCursor]
            /\ last' = [SourceRecord(e) EXCEPT !.honoured = TRUE]
    /\ UNCHANGED <<configVars, target, attached, destroyed, timers>>

HandleMouseDown == ~evt.done /\ OnMouseDown(Cur) /\ gesture' = gesture /\ scen' = ScenAfter(evt')
HandleDragStart == ~evt.done /\ OnDragStart(Cur) /\ gesture' = GestureAfter(evt') /\ scen' = ScenAfter(evt')
HandleDragEnd   == ~evt.done /\ OnDragEnd(Cur) /\ gesture' = GestureAfter(evt') /\ scen' = ScenAfter(evt')

\* nothing is being dispatched any more
Settle == evt' = IdleEvt /\ calls' = <<>> /\ last' = NoLast /\ scen' = NoScen

\* set dragEnabled
SetDragEnabled(e, v) ==
    /\ evt.done
    /\ dragEnabled' = [dragEnabled EXCEPT ![e] = v]
    /\ draggable' = [draggable EXCEPT ![e] = v]
    /\ Settle
    /\ UNCHANGED <<sessionVars, dropEnabled, dropZones, allowDrop, dragHandle,
                   domVars, timers, gesture>>

\* set dragHandle
SetDragHandle(e, h) ==
    /\ evt.done
    /\ dragHandle' = [dragHandle EXCEPT ![e] = h]
    /\ Settle
    /\ UNCHANGED <<sessionVars, dragEnabled, draggable, dropEnabled, dropZones,
                   allowDrop, domVars, timers, gesture>>

\* a concrete source inserts its preview node next to the dragged element
InsertHelper(e) ==
    /\ evt.done
    /\ gesture # None /\ OwnerOf(gesture) = e
    /\ attached[e]
    /\ dragHelper[e] # "inDoc"
    /\ dragHelper' = [dragHelper EXCEPT ![e] = "inDoc"]
    /\ Settle
    /\ UNCHANGED <<sessionVars, configVars, target, attached, cursor, destroyed,
                   timers, gesture>>

\* a concrete source shows the effect cursor on the node whose cursor
\* ondragend restores
ShowEffectCursor(e) ==
    /\ evt.done
    /\ gesture # None /\ OwnerOf(gesture) = e
    /\ cursor[CursorElem(e)] # "effect"
    /\ cursor' = [cursor EXCEPT ![CursorElem(e)] = "effect"]
    /\ Settle
    /\ UNCHANGED <<sessionVars, configVars, target, dragHelper, attached,
                   destroyed, timers, gesture>>

\* the page removes the element from its parent
Detach(e) ==
    /\ evt.done
    /\ attached[e]
    /\ attached' = [attached EXCEPT ![e] = FALSE]
    /\ Settle
    /\ UNCHANGED <<sessionVars, configVars, target, dragHelper, cursor,
                   destroyed, timers, gesture>>

HandleDragEnter == ~evt.done /\ OnDragEnter(Cur) /\ gesture' = gesture /\ scen' = ScenAfter(evt')
HandleDragLeave == ~evt.done /\ OnDragLeave(Cur) /\ gesture' = gesture /\ scen' = ScenAfter(evt')
HandleDragOver  == ~evt.done /\ OnDragOver(Cur) /\ gesture' = gesture /\ scen' = ScenAfter(evt')
HandleDrop      == ~evt.done /\ OnDrop(Cur) /\ gesture' = gesture /\ scen' = ScenAfter(evt')

\* the callback detectChanges schedules
TimerFireUnguarded(e) ==
    /\ evt.done
    /\ timers[e] > 0
    /\ timers' = [timers EXCEPT ![e] = @ - 1]
    /\ last' = [NoLast EXCEPT !.el = e, !.type = "timeout", !.honoured = TRUE]
    /\ evt' = IdleEvt
    /\ calls' = <<>>
    /\ scen' = NoScen
    /\ UNCHANGED <<sessionVars, configVars, domVars, gesture>>

TimerFire(e) ==
    /\ evt.done
    /\ timers[e] > 0
    /\ timers' = [timers EXCEPT ![e] = @ - 1]
    /\ last' = [NoLast EXCEPT !.el = e, !.type = "timeout",
                              !.honoured = ~destroyed[e]]
    /\ evt' = IdleEvt
    /\ calls' = <<>>
    /\ scen' = NoScen
    /\ UNCHANGED <<sessionVars, configVars, domVars, gesture>>

\* the view of the element is torn down
DestroyView(e) ==
    /\ evt.done
    /\ ~destroyed[e]
    /\ destroyed' = [destroyed EXCEPT ![e] = TRUE]
    /\ Settle
    /\ UNCHANGED <<sessionVars, configVars, target, dragHelper, attached,
                   cursor, timers, gesture>>

----------------------------------------------------------------------------
(* The filter on its own: every configuration and session, one target event *)

TypeOK ==
    /\ isDragged \in BOOLEAN
    /\ dragData \in Payloads \cup {None}
    /\ allowedDropZones \in ZoneLists
    /\ dragEnabled \in [Elems -> BOOLEAN]
    /\ draggable \in [Elems -> BOOLEAN]
    /\ dropEnabled \in [Elems -> BOOLEAN]
    /\ dropZones \in [Elems -> ZoneLists]
    /\ allowDrop \in [Elems -> AllowDropKinds]
    /\ dragHandle \in [Elems -> Nodes \cup {None}]
    /\ target \in [Elems -> Nodes \cup {None}]
    /\ dragHelper \in [Elems -> {"unset", "inDoc", "removed"}]
    /\ attached \in [Elems -> BOOLEAN]
    /\ cursor \in [Nodes -> Cursors]
    /\ destroyed \in [Elems -> BOOLEAN]
    /\ timers \in [Elems -> 0..MaxTimers]
    /\ gesture \in Nodes \cup {None}
    /\ scen.step \in 0..4

\* the fields as the constructor and the field initialisers leave them
Constructed ==
    /\ dragEnabled = [e \in Elems |-> TRUE]
    /\ draggable = [e \in Elems |-> FALSE]
    /\ dragHandle = [e \in Elems |-> None]
    /\ target = [e \in Elems |-> None]
    /\ dragHelper = [e \in Elems |-> "unset"]
    /\ attached = [e \in Elems |-> TRUE]
    /\ cursor = [n \in Nodes |-> defaultCursor]
    /\ destroyed = [e \in Elems |-> FALSE]
    /\ timers = [e \in Elems |-> 0]
    /\ gesture = None
    /\ evt = IdleEvt
    /\ calls = <<>>
    /\ last = NoLast
    /\ scen = NoScen

\* the inputs as the field initialisers leave them
DefaultInputs ==
    /\ dropEnabled = [e \in Elems |-> FALSE]
    /\ dropZones = [e \in Elems |-> <<>>]
    /\ allowDrop = [e \in Elems |-> None]

\* the session before any gesture
IdleSession ==
    /\ isDragged = FALSE
    /\ dragData = None
    /\ allowedDropZones = <<>>

InitFilter ==
    /\ Constructed
    /\ isDragged \in BOOLEAN
    /\ dragData \in Payloads
    /\ allowedDropZones \in ZoneLists
    /\ \E en \in BOOLEAN : dropEnabled = [e \in Elems |-> IF e = "E1" THEN en ELSE FALSE]
    /\ \E zs \in ZoneLists : dropZones = [e \in Elems |-> IF e = "E1" THEN zs ELSE <<>>]
    /\ \E k \in AllowDropKinds : allowDrop = [e \in Elems |-> IF e = "E1" THEN k ELSE None]

DispatchAtOuter == \E type \in TargetTypes, dt \in Transfers : Dispatch(type, "E1", dt)

NextFilter ==
    \/ DispatchAtOuter
    \/ HandleDragEnter
    \/ HandleDragOver
    \/ HandleDragLeave
    \/ HandleDrop
    \/ \E e \in Elems : TimerFire(e)

SpecFilter == InitFilter /\ [][NextFilter]_vars

----------------------------------------------------------------------------
(* The source side: pointer-down, drag-start and drag-end on both elements *)

\* the zones the two elements advertise
SourceZones ==
    {[e \in Elems |-> IF e = "E1" THEN z1 ELSE z2] :
        z1 \in {<<>>, <<"a">>}, z2 \in {<<>>, <<"b">>}}

InitSource ==
    /\ IdleSession
    /\ dragEnabled = [e \in Elems |-> TRUE]
    /\ draggable = [e \in Elems |-> FALSE]
    /\ dropEnabled = [e \in Elems |-> FALSE]
    /\ dropZones \in SourceZones
    /\ allowDrop = [e \in Elems |-> None]
    /\ \E h1 \in {None, "H1"}, h2 \in {None, "H2"} :
           dragHandle = [e \in Elems |-> IF e = "E1" THEN h1 ELSE h2]
    /\ target = [e \in Elems |-> None]
    /\ dragHelper = [e \in Elems |-> "unset"]
    /\ attached = [e \in Elems |-> TRUE]
    /\ cursor = [n \in Nodes |-> defaultCursor]
    /\ destroyed = [e \in Elems |-> FALSE]
    /\ timers = [e \in Elems |-> 0]
    /\ gesture = None
    /\ evt = IdleEvt
    /\ calls = <<>>
    /\ last = NoLast
    /\ scen = NoScen

SourceTransfers == {"absent", "empty"}

DispatchMouseDown == \E n \in Nodes : Dispatch("mousedown", n, "absent")
DispatchDragStart == \E n \in Nodes, dt \in SourceTransfers : Dispatch("dragstart", n, dt)
DispatchDragEnd == \E n \in Nodes : Dispatch("dragend", n, "empty")

NextSource ==
    \/ DispatchMouseDown
    \/ DispatchDragStart
    \/ DispatchDragEnd
    \/ HandleMouseDown
    \/ HandleDragStart
    \/ HandleDragEnd
    \/ \E e \in Elems, v \in BOOLEAN : SetDragEnabled(e, v)

SpecSource == InitSource /\ [][NextSource]_vars

----------------------------------------------------------------------------
(* The target side: the four target events on the nested pair *)

TargetZoneLists == {<<>>, <<"a">>}

InitTarget ==
    /\ Constructed
    /\ isDragged \in BOOLEAN
    /\ dragData = "p1"
    /\ allowedDropZones \in TargetZoneLists
    /\ dropEnabled \in [Elems -> BOOLEAN]
    /\ dropZones \in [Elems -> TargetZoneLists]
    /\ allowDrop \in [Elems -> {None, "never"}]

DispatchTarget ==
    \E type \in TargetTypes, n \in Nodes, dt \in Transfers : Dispatch(type, n, dt)

NextTarget ==
    \/ DispatchTarget
    \/ HandleDragEnter
    \/ HandleDragOver
    \/ HandleDragLeave
    \/ HandleDrop
    \/ \E e \in Elems : TimerFire(e)
    \/ \E e \in Elems : DestroyView(e)

SpecTarget == InitTarget /\ [][NextTarget]_vars

----------------------------------------------------------------------------
(* The end of a gesture: preview node, cursor and detachment *)

InitEnd ==
    /\ Constructed
    /\ IdleSession
    /\ dropEnabled = [e \in Elems |-> FALSE]
    /\ dropZones = [e \in Elems |-> IF e = "E1" THEN <<"a">> ELSE <<"b">>]
    /\ allowDrop = [e \in Elems |-> None]

DispatchDragStartAtElement == \E n \in Elems : Dispatch("dragstart", n, "empty")
DispatchDragEndAtElement == \E n \in Elems : Dispatch("dragend", n, "empty")

NextEnd ==
    \/ DispatchDragStartAtElement
    \/ DispatchDragEndAtElement
    \/ HandleDragStart
    \/ HandleDragEnd
    \/ \E e \in Elems : SetDragHandle(e, HandleOf(e))
    \/ \E e \in Elems : InsertHelper(e)
    \/ \E e \in Elems : ShowEffectCursor(e)
    \/ \E e \in Elems : Detach(e)

SpecEnd == InitEnd /\ [][NextEnd]_vars

----------------------------------------------------------------------------
(* Whole gestures over the nested pair *)

GestureZoneLists == {<<>>, <<"a">>}

Init ==
    /\ Constructed
    /\ IdleSession
    /\ dropEnabled \in [Elems -> BOOLEAN]
    /\ dropZones \in [Elems -> GestureZoneLists]
    /\ allowDrop = [e \in Elems |-> None]

DispatchPointer == \E n \in Elems : Dispatch("mousedown", n, "absent")
DispatchSource ==
    \E type \in {"dragstart", "dragend"}, n \in Elems : Dispatch(type, n, "empty")
DispatchOver ==
    \E type \in TargetTypes, n \in Elems : Dispatch(type, n, "empty")

Next ==
    \/ DispatchPointer
    \/ DispatchSource
    \/ DispatchOver
    \/ HandleMouseDown
    \/ HandleDragStart
    \/ HandleDragEnd
    \/ HandleDragEnter
    \/ HandleDragOver
    \/ HandleDragLeave
    \/ HandleDrop
    \/ \E e \in Elems : TimerFire(e)
    \/ \E e \in Elems, v \in BOOLEAN : SetDragEnabled(e, v)

Spec == Init /\ [][Next]_vars

----------------------------------------------------------------------------
(* Claims about isDropAllowed, checked under SpecFilter *)

\* the event carries files: its transfer holds a non-empty FileList
CarriesFiles(dt) == dt = "files"

\* C1: with dropEnabled, an active session and no allowDrop predicate, the
\* filter allows iff both zone lists are empty or they share an identifier,
\* whatever the order of either list
C1_ZoneMatching ==
    (last.filtered /\ last.enabled /\ last.active /\ last.pred = None)
    => (last.allowed <=>
          \/ (last.own = <<>> /\ last.elig = <<>>)
          \/ Range(last.own) \cap Range(last.elig) # {})

\* a target with zones [a,b] has accepted a drag whose zones are [c,b]
C1_Witness ==
    /\ last.filtered /\ last.enabled /\ last.active /\ last.pred = None
    /\ last.own = <<"a", "b">> /\ last.elig = <<"c", "b">>
    /\ last.allowed

\* C2: the filter rejects whenever dropEnabled is false, and whenever no
\* session is active and the event carries no file data
C2_Gate ==
    (last.filtered /\ (~last.enabled \/ (~last.active /\ ~CarriesFiles(last.dt))))
    => ~last.allowed

\* C3: once the gate has passed, a supplied allowDrop predicate decides alone
C3_PredicateAuthoritative ==
    (last.filtered /\ last.enabled /\ (last.active \/ CarriesFiles(last.dt))
       /\ last.pred # None)
    => (last.allowed <=>
          \/ last.pred = "always"
          \/ (last.pred = "isP1" /\ last.payload = "p1"))

\* intersecting zones are rejected because the predicate returned false
C3_Witness ==
    /\ last.filtered /\ last.enabled /\ last.active
    /\ last.pred = "never" /\ last.own = <<"a">> /\ last.elig = <<"a">>
    /\ ~last.allowed

\* C4 as stated: a target without zones accepts a drag from any zone
C4_EmptyOwnAcceptsAny ==
    (last.filtered /\ last.enabled /\ last.active /\ last.pred = None
       /\ last.own = <<>>)
    => last.allowed

\* C4 as amended: a target without zones accepts exactly the drags that
\* advertise no zone
C4_EmptyOwnAcceptsUnzoned ==
    (last.filtered /\ last.enabled /\ last.active /\ last.pred = None
       /\ last.own = <<>>)
    => (last.allowed <=> last.elig = <<>>)

\* a target without zones has rejected a drag that advertises a zone
C4_Witness ==
    /\ last.filtered /\ last.enabled /\ last.active /\ last.pred = None
    /\ last.own = <<>> /\ last.elig = <<"a">>
    /\ ~last.allowed


----------------------------------------------------------------------------
(* Claims about the handlers *)

\* how often the dispatch of evt has invoked hook h of element e
Count(e, h) ==
    Cardinality({i \in DOMAIN calls : calls[i].el = e /\ calls[i].hook = h})

CountAll(h) == Cardinality({i \in DOMAIN calls : calls[i].hook = h})

TargetHooks == {"dragEnter", "dragOver", "dragLeave", "drop"}

HookOf(type) ==
    CASE type = "dragenter" -> "dragEnter"
      [] type = "dragover"  -> "dragOver"
      [] type = "dragleave" -> "dragLeave"
      [] type = "drop"      -> "drop"
      [] OTHER              -> None

\* C5: a drag-start handled by an element whose handle does not contain the
\* recorded pointer-down target is cancelled: the default action is
\* suppressed, the element's dragStart hook has not fired, the eligible zones
\* are as they were and the handler has not marked the transfer
C5_HandleMissCancels ==
    (last.type = "dragstart" /\ last.handle # None /\ last.ptr # last.handle)
    => /\ evt.prevented
       /\ Count(last.el, "dragStart") = 0
       /\ allowedDropZones = last.elig
       /\ evt.dataSet = last.wasSet
       /\ isDragged = last.active

\* pointer-down on the body of E2, whose handle is H2, then drag-start
C5_Witness ==
    /\ last.type = "dragstart" /\ last.el = "E2"
    /\ last.handle = "H2" /\ last.ptr = "E2"
    /\ evt.prevented

\* C6: after every drag-end an element handles, the eligible zones are
\* empty and the cursor of its handle, or of the element when it has no
\* handle, is the default cursor
C6_DragEndAlwaysCleans ==
    last.type = "dragend"
    => /\ allowedDropZones = <<>>
       /\ cursor[IF last.handle # None THEN last.handle ELSE last.el]
            = defaultCursor

\* C7: a target-side event fires the matching hook of the element once when
\* the filter passes and not at all when it fails, and no target-side hook
\* is ever on record for an element the filter rejects
C7_TargetHooksFollowFilter ==
    /\ last.filtered
       => /\ Count(last.el, HookOf(last.type)) = (IF last.allowed THEN 1 ELSE 0)
          /\ \A h \in TargetHooks \ {HookOf(last.type)} : Count(last.el, h) = 0
    /\ \A i \in DOMAIN calls :
          calls[i].hook \in TargetHooks
          => /\ calls[i].hook = HookOf(evt.type)
             /\ isDropAllowed(calls[i].el, evt.dt)

\* a drag-leave has passed the filter and fired the dragLeave hook once
C7_Witness ==
    /\ last.filtered /\ last.type = "dragleave" /\ last.allowed
    /\ Count(last.el, "dragLeave") = 1

\* C8: a drag-start or drag-end handled by an element whose dragEnabled is
\* false invokes neither source-side hook of it, and no source-side hook
\* fires twice for one event
C8_SourceHooksNeedEnablement ==
    /\ (last.type \in {"dragstart", "dragend"} /\ ~last.enabled)
       => (Count(last.el, "dragStart") = 0 /\ Count(last.el, "dragEnd") = 0)
    /\ \A e \in Elems : Count(e, "dragStart") <= 1 /\ Count(e, "dragEnd") <= 1

\* C9: a drop dispatched on the inner element that both elements would
\* accept is cancelled and stopped by the inner element: its drop hook fires,
\* the outer element's drop hook and refresh scheduling do not run
C9_InnerDropStopsPropagation ==
    (/\ evt.type = "drop" /\ evt.done /\ evt.target \in {"E2", "H2"}
     /\ isDropAllowed("E2", evt.dt) /\ isDropAllowed("E1", evt.dt))
    => /\ evt.prevented /\ evt.stopped
       /\ Count("E2", "drop") = 1
       /\ Count("E1", "drop") = 0
       /\ Count("E1", "setTimeout") = 0
       /\ last.el = "E2"

\* the drop on E2 is over, both elements accept it, only E2 has seen it
C9_Witness ==
    /\ evt.type = "drop" /\ evt.done /\ evt.target = "E2"
    /\ isDropAllowed("E2", evt.dt) /\ isDropAllowed("E1", evt.dt)
    /\ calls = <<HookCall("E2", "drop", allowedDropZones),
                 HookCall("E2", "setTimeout", allowedDropZones)>>

\* C10: in the gesture drag-start on A, drag-over on B, drop on B, drag-end
\* on A, with A drag-enabled, B drop-enabled, both advertising the same zone
\* list and the session active: the eligible zones are that list after
\* drag-start; B's dragOver hook has fired and the default action is
\* suppressed; B's drop hook has fired once, followed by one scheduled
\* refresh; the eligible zones are empty after drag-end
C10_Gesture ==
    /\ (scen.step = 1 /\ evt.done)
       => (allowedDropZones = dropZones[scen.a] /\ Count(scen.a, "dragStart") = 1)
    /\ (scen.step = 2 /\ evt.done)
       => (Count(scen.b, "dragOver") = 1 /\ evt.prevented)
    /\ (scen.step = 3 /\ evt.done)
       => /\ CountAll("drop") = 1 /\ CountAll("setTimeout") = 1
          /\ \E i \in DOMAIN calls :
                /\ i + 1 \in DOMAIN calls
                /\ calls[i] = HookCall(scen.b, "drop", allowedDropZones)
                /\ calls[i + 1] = HookCall(scen.b, "setTimeout", allowedDropZones)
    /\ (scen.step = 4 /\ evt.done) => allowedDropZones = <<>>

\* the four events have happened in order and the gesture is over
C10_Witness ==
    /\ scen.step = 4 /\ evt.done /\ evt.type = "dragend"
    /\ allowedDropZones = <<>> /\ dropZones[scen.a] = <<"a">>

----------------------------------------------------------------------------
(* Claims about the session, the refresh and the end of a gesture *)

\* C11: in every reachable state the eligible zones are non-empty only while
\* the session is active
C11_ZonesOnlyWhileActive == allowedDropZones # <<>> => isDragged

(* The deferred refresh: drops on the nested pair, timers and teardown *)

InitRefresh ==
    /\ Constructed
    /\ isDragged \in BOOLEAN
    /\ dragData = "p1"
    /\ allowedDropZones = <<>>
    /\ dropEnabled \in [Elems -> BOOLEAN]
    /\ dropZones = [e \in Elems |-> <<>>]
    /\ allowDrop = [e \in Elems |-> None]

DispatchDrop == \E n \in Nodes, dt \in {"empty", "files"} : Dispatch("drop", n, dt)

NextRefresh ==
    \/ DispatchDrop
    \/ HandleDrop
    \/ \E e \in Elems : TimerFire(e)
    \/ \E e \in Elems : DestroyView(e)

\* a dispatch runs to completion, and the event loop runs a due timer between
\* two dispatches however many events keep arriving
SpecRefresh ==
    /\ InitRefresh
    /\ [][NextRefresh]_vars
    /\ WF_vars(HandleDrop)
    /\ \A e \in Elems : SF_vars(TimerFire(e))

\* C12: the refresh a drop schedules is still pending when the drop handler
\* returns and no timer step happens inside the dispatch of a drop; a timer
\* step refreshes iff the view is not destroyed; every accepted drop is
\* eventually followed by the timer step of its element, a refresh or a
\* silent no-op
C12_DeferredRefresh ==
    /\ [](/\ (last.type = "drop" /\ last.allowed) => timers[last.el] > 0
          /\ evt.type = "drop" => last.type # "timeout"
          /\ last.type = "timeout" => (evt.done /\ (last.honoured <=> ~destroyed[last.el])))
    /\ \A e \in Elems :
          (last.type = "drop" /\ last.allowed /\ last.el = e)
             ~> (last.type = "timeout" /\ last.el = e)

\* the timer of a drop E2 accepted fires after the view of E2 was destroyed
C12_Witness ==
    /\ last.type = "timeout" /\ last.el = "E2"
    /\ destroyed["E2"] /\ ~last.honoured

\* C13: after every drag-end handled by an element that has a preview node,
\* the preview node is no longer in the document
C13_HelperGoneAfterDragEnd ==
    (last.type = "dragend" /\ dragHelper[last.el] # "unset")
    => dragHelper[last.el] # "inDoc"

(* The zones of a gesture: the source and the targets it is dragged over *)

InitZones ==
    /\ Constructed
    /\ IdleSession
    /\ dropEnabled = [e \in Elems |-> TRUE]
    /\ dropZones \in SourceZones
    /\ allowDrop = [e \in Elems |-> None]

DispatchStartEnd ==
    \E type \in {"dragstart", "dragend"}, n \in Nodes, dt \in SourceTransfers :
        Dispatch(type, n, dt)
DispatchEnterOver ==
    \E type \in {"dragenter", "dragover"}, n \in Elems : Dispatch(type, n, "empty")

\* dragEnabled is an input the page sets between gestures
ConfigureDragEnabled ==
    /\ gesture = None
    /\ \E e \in Elems, v \in BOOLEAN : SetDragEnabled(e, v)

NextZones ==
    \/ DispatchStartEnd
    \/ DispatchEnterOver
    \/ HandleDragStart
    \/ HandleDragEnd
    \/ HandleDragEnter
    \/ HandleDragOver
    \/ ConfigureDragEnabled

SpecZones == InitZones /\ [][NextZones]_vars

\* the dragStart hook of element e as an honoured drag-start invokes it
StartHookCall(e, own, wasSet) ==
    [el |-> e, hook |-> "dragStart", zones |-> own, marked |-> wasSet]

\* C14: an honoured drag-start of a drag-enabled element sets the eligible
\* zones to the element's zones, then invokes the dragStart hook, which
\* observes the new zones and a transfer this handler has not marked yet,
\* then marks the transfer; and at every drag-enter and drag-over filter
\* evaluation of the gesture the eligible zones are the zones of its source
C14_StartOrder ==
    /\ (last.type = "dragstart" /\ last.honoured /\ last.enabled)
       => /\ allowedDropZones = last.own
          /\ calls # <<>>
          /\ calls[Len(calls)] = StartHookCall(last.el, last.own, last.wasSet)
          /\ last.dt # "absent" => evt.dataSet
    /\ (/\ last.filtered /\ last.type \in {"dragenter", "dragover"}
        /\ gesture # None /\ dragEnabled[OwnerOf(gesture)])
       => last.elig = dropZones[OwnerOf(gesture)]

----------------------------------------------------------------------------
(* Claims about drag-over, rejected events and pointer-down *)

\* C15: a drag-over that passes the filter of an element suppresses the
\* default action, fires the element's dragOver hook, sets the drop-effect
\* to the configured name and marks the transfer; and the default action of
\* a drag-over is suppressed only when the filter of some element that
\* handled it has passed
C15_DragOverSuppressesOnlyWhenAllowed ==
    /\ (last.filtered /\ last.type = "dragover" /\ last.allowed)
       => /\ evt.prevented
          /\ Count(last.el, "dragOver") = 1
          /\ last.dt # "absent" => (evt.dropEffect = DropEffectName /\ evt.dataSet)
    /\ (evt.type = "dragover" /\ evt.prevented) => CountAll("dragOver") > 0

\* C16: a target-side handler leaves the session, the configuration and the
\* document as they are, and a drag-enter, drag-leave or drop the filter
\* rejects changes nothing: no hook, no suppressed default action, no stopped
\* propagation, no scheduled timer
C16_RejectedEventChangesNothing ==
    [][/\ (~evt.done /\ evt.type \in TargetTypes)
          => UNCHANGED <<sessionVars, configVars, domVars>>
       /\ (/\ ~evt.done /\ evt.type \in {"dragenter", "dragleave", "drop"}
           /\ ~isDropAllowed(Cur, evt.dt))
          => /\ UNCHANGED <<sessionVars, configVars, domVars, timers, calls>>
             /\ evt'.prevented = evt.prevented
             /\ evt'.stopped = evt.stopped
             /\ evt'.dataSet = evt.dataSet
             /\ evt'.dropEffect = evt.dropEffect]_vars

\* a drop without a session and without transfer data on a drop-enabled
\* element has been handled and ignored
C16_Witness ==
    /\ last.filtered /\ last.type = "drop" /\ ~last.allowed
    /\ last.enabled /\ ~last.active /\ last.dt = "absent"
    /\ evt.done /\ ~evt.prevented /\ ~evt.stopped
    /\ calls = <<>> /\ \A e \in Elems : timers[e] = 0

\* C17: a pointer-down handler changes nothing but the element's recorded
\* pointer target, which becomes the target of this event; and an element
\* with a handle honours a drag-start iff the target its latest pointer-down
\* recorded lies inside the handle, so a drag-start with no pointer-down on
\* record, or with the latest one outside the handle, is cancelled
C17_PointerDownAndHandle ==
    [][/\ (~evt.done /\ evt.type = "mousedown")
          => /\ target' = [target EXCEPT ![Cur] = evt.target]
             /\ UNCHANGED <<sessionVars, configVars, dragHelper, attached,
                            cursor, destroyed, timers, calls, gesture>>
             /\ evt'.prevented = evt.prevented /\ evt'.stopped = evt.stopped
       /\ (~evt.done /\ evt.type = "dragstart" /\ dragHandle[Cur] # None)
          => /\ last'.honoured <=> Contains(dragHandle[Cur], target[Cur])
             /\ ~last'.honoured
                => /\ evt'.prevented
                   /\ UNCHANGED <<sessionVars, calls>>
                   /\ evt'.dataSet = evt.dataSet]_vars

\* E1 with handle H1 has cancelled a drag-start because its latest
\* pointer-down landed on the nested E2, outside the handle
C17_Witness ==
    /\ last.type = "dragstart" /\ last.el = "E1" /\ last.handle = "H1"
    /\ last.ptr = "E2" /\ ~last.honoured /\ evt.prevented /\ evt.done

\* C18: every drag-over an element handles is cancelled and, when the event
\* has a transfer, gets the configured drop-effect and a marked transfer,
\* whether the filter passes or not; without a transfer neither is touched;
\* the dragOver hook alone follows the filter
C18_DragOverAlwaysCancels ==
    (last.filtered /\ last.type = "dragover")
    => /\ evt.prevented
       /\ last.dt # "absent" => (evt.dropEffect = DropEffectName /\ evt.dataSet)
       /\ last.dt = "absent" => (evt.dropEffect = None /\ ~evt.dataSet)
       /\ Count(last.el, "dragOver") = (IF last.allowed THEN 1 ELSE 0)

\* an element with dropEnabled false has handled a drag-over with a
\* transfer: cancelled and marked, no hook
C18_Witness ==
    /\ last.filtered /\ last.type = "dragover" /\ ~last.enabled
    /\ last.dt = "empty" /\ ~last.allowed
    /\ evt.prevented /\ evt.dataSet /\ evt.dropEffect = DropEffectName
    /\ CountAll("dragOver") = 0

----------------------------------------------------------------------------
(* Claims about nesting and the draggable attribute *)

\* C19: when the dispatch of a drag-start that a drag-enabled element S
\* honoured is over, bubbling included, the eligible zones are the zones of S
\* and no dragStart hook but that of S has fired; when the dispatch of a
\* drag-end on S is over, no dragEnd hook but that of S has fired
C19_OnlyTheSourceHandles ==
    /\ (/\ evt.done /\ evt.type = "dragstart"
        /\ Count(OwnerOf(evt.target), "dragStart") = 1)
       => /\ allowedDropZones = dropZones[OwnerOf(evt.target)]
          /\ CountAll("dragStart") = 1
    /\ (evt.done /\ evt.type = "dragend")
       => CountAll("dragEnd") = Count(OwnerOf(evt.target), "dragEnd")

\* C20: in every reachable state, from construction onward, the native
\* draggable attribute of each element equals its dragEnabled
C20_DraggableFollowsDragEnabled ==
    \A e \in Elems : draggable[e] = dragEnabled[e]

====
